---- MODULE Spec2Model ----
(***************************************************************************)
(* Model of the vulntoken pallet (pallets/vulntoken/src/lib.rs): a registry *)
(* of collectibles, a capacity-bounded per-account ownership index, a mint  *)
(* counter, a highest-price aggregate, and the dispatchable calls           *)
(* create_collectible, transfer, burn, set_price, buy_collectible plus the  *)
(* on_initialize hook.                                                      *)
(*                                                                         *)
(* Storage items are the variables CollectiblesCount, HighestPrice,         *)
(* CollectibleMap and OwnerOfCollectibles.  op, result, events and ledger   *)
(* describe the most recent call: its name, its DispatchResult, the events  *)
(* it deposited and the Currency::transfer invocations it made.  minted and *)
(* burned are history variables.                                            *)
(***************************************************************************)
EXTENDS Integers, Sequences, FiniteSets, TLC

\* ---------------------------------------------------------------- bounds
\* Cap on the number of successful mints explored (the u64 counter itself is
\* far from overflow in every explored state).
MaxCount == 3
\* T::MaximumOwned, the capacity of every BoundedVec in OwnerOfCollectibles.
MaximumOwned == 2
\* Largest value of the runtime's Balance type (scaled down).
BalanceMax == 3
\* Largest value of u128 (scaled down); u128 arithmetic is modulo U128Max + 1.
U128Max == 7

\* ---------------------------------------------------------------- values
Accounts == {"alice", "bob"}
Ids == 0 .. (MaxCount - 1)

\* Option<T>: None is the empty tuple, Some(x) the one-element tuple.
None == << >>
Some(x) == << x >>
is_some(o) == Len(o) = 1
unwrap(o) == o[1]

\* Option's derived ordering: None < Some(_), Some(a) > Some(b) iff a > b.
OptGt(a, b) ==
    IF ~is_some(a) THEN FALSE
    ELSE IF ~is_some(b) THEN TRUE
    ELSE unwrap(a) > unwrap(b)

\* Inputs the calls are exercised with.
PriceInputs == {None, Some(1)}
FeeInputs == {1, U128Max}

VARIABLES
    CollectiblesCount,    \* StorageValue<u64>
    HighestPrice,         \* StorageValue<Balance>
    CollectibleMap,       \* StorageMap<u64, Collectible>: function on the present keys
    OwnerOfCollectibles,  \* StorageMap<AccountId, BoundedVec<u64, MaximumOwned>>
    op,                   \* name of the most recent call
    result,               \* its outcome: "Ok", an Error name, or "panic"
    events,               \* events it deposited, in order
    ledger,               \* Currency::transfer invocations it made, in order
    minted,               \* history: ids assigned by successful mints, in order
    burned                \* history: ids removed by burn

storage == << CollectiblesCount, HighestPrice, CollectibleMap, OwnerOfCollectibles >>
history == << minted, burned >>
vars == << CollectiblesCount, HighestPrice, CollectibleMap, OwnerOfCollectibles,
           op, result, events, ledger, minted, burned >>

\* ---------------------------------------------------------------- storage helpers
contains_key(map, k) == k \in DOMAIN map

insert(map, k, v) == [x \in (DOMAIN map) \cup {k} |-> IF x = k THEN v ELSE map[x]]

remove(map, k) == [x \in (DOMAIN map) \ {k} |-> map[x]]

\* iter().position(|&id| id == x): index of the first occurrence, 0 when absent.
position(vec, x) ==
    IF \E i \in 1 .. Len(vec) : vec[i] = x
    THEN CHOOSE i \in 1 .. Len(vec) :
            /\ vec[i] = x
            /\ \A j \in 1 .. (i - 1) : vec[j] # x
    ELSE 0

\* Faulty variant: drops the last element whatever the index.
swap_remove_pop(vec, ind) == [i \in 1 .. (Len(vec) - 1) |-> vec[i]]

\* Vec::swap_remove: the last element takes the place of the removed one.
swap_remove(vec, ind) ==
    [i \in 1 .. (Len(vec) - 1) |-> IF i = ind THEN vec[Len(vec)] ELSE vec[i]]

\* Faulty variant: no capacity check.
try_push_unbounded(vec, x) == [ok |-> TRUE, vec |-> Append(vec, x)]

\* BoundedVec::try_push / StorageMap::try_append: fails when the vector is at capacity.
try_push(vec, x) ==
    IF Len(vec) >= MaximumOwned
    THEN [ok |-> FALSE, vec |-> vec]
    ELSE [ok |-> TRUE, vec |-> Append(vec, x)]

\* Number of occurrences of x in vec.
occurrences(vec, x) == Cardinality({i \in 1 .. Len(vec) : vec[i] = x})

elems(vec) == {vec[i] : i \in 1 .. Len(vec)}

\* ---------------------------------------------------------------- numeric conversions
\* Balance -> u128 (saturated_into::<u128>()).
balance_into_u128(b) == IF b > U128Max THEN U128Max ELSE b

\* u128 -> Balance (saturated_into()).
u128_into_balance(x) == IF x > BalanceMax THEN BalanceMax ELSE x

\* extra_fee + price on u128 with overflow checks off: wraps modulo 2^128.
wrapping_add_u128(a, b) == (a + b) % (U128Max + 1)

\* ---------------------------------------------------------------- initial state
Init ==
    /\ CollectiblesCount = 0
    /\ HighestPrice = 0
    /\ CollectibleMap = << >>
    /\ OwnerOfCollectibles = [a \in Accounts |-> << >>]
    /\ op = "genesis"
    /\ result = "Ok"
    /\ events = << >>
    /\ ledger = << >>
    /\ minted = << >>
    /\ burned = {}

\* A call that returns Err(err) before writing anything.
Fail(err) ==
    /\ result' = err
    /\ events' = << >>
    /\ ledger' = << >>
    /\ UNCHANGED storage
    /\ UNCHANGED history

\* The block-initialisation hook panicked: no further block is produced.
Halted == op = "on_initialize" /\ result = "panic"

\* ---------------------------------------------------------------- internal functions
\* Faulty variant: the id is the number of live records instead of the counter.
gen_unique_id_live ==
    << Cardinality(DOMAIN CollectibleMap),
       IF CollectiblesCount % 2 = 0 THEN "Red" ELSE "Yellow" >>

\* gen_unique_id: the id is the current count, the colour its parity.
gen_unique_id ==
    IF CollectiblesCount % 2 = 0
    THEN << CollectiblesCount, "Red" >>
    ELSE << CollectiblesCount, "Yellow" >>

\* Faulty variant: the record is written before the append is attempted, and
\* stays when the append fails.
mint_insert_first(owner, unique_id, color) ==
    LET collectible == [unique_id |-> unique_id, price |-> None,
                        color |-> color, owner |-> owner]
        appended == try_push(OwnerOfCollectibles[owner], unique_id)
    IN  /\ ~contains_key(CollectibleMap, unique_id)
        /\ CollectibleMap' = insert(CollectibleMap, unique_id, collectible)
        /\ ledger' = << >>
        /\ UNCHANGED << HighestPrice, burned >>
        /\ IF ~appended.ok
           THEN /\ result' = "MaximumCollectiblesOwned"
                /\ events' = << >>
                /\ UNCHANGED << CollectiblesCount, OwnerOfCollectibles, minted >>
           ELSE /\ OwnerOfCollectibles' =
                      [OwnerOfCollectibles EXCEPT ![owner] = appended.vec]
                /\ CollectiblesCount' = CollectiblesCount + 1
                /\ events' = << [type |-> "CollectibleCreated",
                                 collectible |-> unique_id, owner |-> owner] >>
                /\ result' = "Ok"
                /\ minted' = Append(minted, unique_id)

\* mint: duplicate check, try_append to the owner's vector, then insert and count.
\* (checked_add on the u64 counter cannot fail below MaxCount.)
mint(owner, unique_id, color) ==
    LET collectible == [unique_id |-> unique_id, price |-> None,
                        color |-> color, owner |-> owner]
        new_count == CollectiblesCount + 1
        appended == try_push(OwnerOfCollectibles[owner], unique_id)
    IN  IF contains_key(CollectibleMap, unique_id) THEN Fail("DuplicateCollectible")
        ELSE IF ~appended.ok THEN Fail("MaximumCollectiblesOwned")
        ELSE /\ OwnerOfCollectibles' = [OwnerOfCollectibles EXCEPT ![owner] = appended.vec]
             /\ CollectibleMap' = insert(CollectibleMap, unique_id, collectible)
             /\ CollectiblesCount' = new_count
             /\ events' = << [type |-> "CollectibleCreated",
                              collectible |-> unique_id, owner |-> owner] >>
             /\ result' = "Ok"
             /\ ledger' = << >>
             /\ minted' = Append(minted, unique_id)
             /\ UNCHANGED << HighestPrice, burned >>

\* Faulty variant: the price is not reset.
do_transfer_keep_price(collectible_id, to) ==
    IF ~contains_key(CollectibleMap, collectible_id) THEN Fail("NoCollectible")
    ELSE
    LET collectible == CollectibleMap[collectible_id]
        from == collectible.owner
        ind == position(OwnerOfCollectibles[from], collectible_id)
        from_owned == swap_remove(OwnerOfCollectibles[from], ind)
        pushed == try_push(OwnerOfCollectibles[to], collectible_id)
    IN  IF from = to THEN Fail("TransferToSelf")
        ELSE IF ind = 0 THEN Fail("NoCollectible")
        ELSE IF ~pushed.ok THEN Fail("MaximumCollectiblesOwned")
        ELSE /\ CollectibleMap' = insert(CollectibleMap, collectible_id,
                                         [collectible EXCEPT !.owner = to])
             /\ OwnerOfCollectibles' =
                    [OwnerOfCollectibles EXCEPT ![to] = pushed.vec, ![from] = from_owned]
             /\ events' = << [type |-> "TransferSucceeded", from |-> from, to |-> to,
                              collectible |-> collectible_id] >>
             /\ result' = "Ok"
             /\ ledger' = << >>
             /\ UNCHANGED << CollectiblesCount, HighestPrice >>
             /\ UNCHANGED history

\* do_transfer: every check precedes the three storage writes.
\* Faulty variant: the sender's vector is written back before the recipient's
\* try_push is examined, so a refused transfer still drops the id.
do_transfer_partial(collectible_id, to) ==
    IF ~contains_key(CollectibleMap, collectible_id) THEN Fail("NoCollectible")
    ELSE
    LET collectible == CollectibleMap[collectible_id]
        from == collectible.owner
        ind == position(OwnerOfCollectibles[from], collectible_id)
        from_owned == swap_remove(OwnerOfCollectibles[from], ind)
        pushed == try_push(OwnerOfCollectibles[to], collectible_id)
    IN  IF from = to THEN Fail("TransferToSelf")
        ELSE IF ind = 0 THEN Fail("NoCollectible")
        ELSE IF ~pushed.ok
        THEN /\ OwnerOfCollectibles' = [OwnerOfCollectibles EXCEPT ![from] = from_owned]
             /\ result' = "MaximumCollectiblesOwned"
             /\ events' = << >>
             /\ ledger' = << >>
             /\ UNCHANGED << CollectiblesCount, HighestPrice, CollectibleMap >>
             /\ UNCHANGED history
        ELSE /\ CollectibleMap' = insert(CollectibleMap, collectible_id,
                                         [collectible EXCEPT !.owner = to, !.price = None])
             /\ OwnerOfCollectibles' =
                    [OwnerOfCollectibles EXCEPT ![to] = pushed.vec, ![from] = from_owned]
             /\ events' = << [type |-> "TransferSucceeded", from |-> from, to |-> to,
                              collectible |-> collectible_id] >>
             /\ result' = "Ok"
             /\ ledger' = << >>
             /\ UNCHANGED << CollectiblesCount, HighestPrice >>
             /\ UNCHANGED history

do_transfer(collectible_id, to) ==
    IF ~contains_key(CollectibleMap, collectible_id) THEN Fail("NoCollectible")
    ELSE
    LET collectible == CollectibleMap[collectible_id]
        from == collectible.owner
        ind == position(OwnerOfCollectibles[from], collectible_id)
        from_owned == swap_remove(OwnerOfCollectibles[from], ind)
        pushed == try_push(OwnerOfCollectibles[to], collectible_id)
    IN  IF from = to THEN Fail("TransferToSelf")
        ELSE IF ind = 0 THEN Fail("NoCollectible")
        ELSE IF ~pushed.ok THEN Fail("MaximumCollectiblesOwned")
        ELSE /\ CollectibleMap' = insert(CollectibleMap, collectible_id,
                                         [collectible EXCEPT !.owner = to, !.price = None])
             /\ OwnerOfCollectibles' =
                    [OwnerOfCollectibles EXCEPT ![to] = pushed.vec, ![from] = from_owned]
             /\ events' = << [type |-> "TransferSucceeded", from |-> from, to |-> to,
                              collectible |-> collectible_id] >>
             /\ result' = "Ok"
             /\ ledger' = << >>
             /\ UNCHANGED << CollectiblesCount, HighestPrice >>
             /\ UNCHANGED history

\* final_price = extra_fee + price.saturated_into::<u128>(), overflow checks off.
final_price(extra_fee, price) == wrapping_add_u128(extra_fee, balance_into_u128(price))

\* The same addition overflows u128 (a panic when overflow checks are on).
add_overflows(extra_fee, price) == extra_fee + balance_into_u128(price) > U128Max

\* Faulty variant: the buyer is not compared with the owner.
buy_precheck_no_self(unique_id, to) ==
    IF ~contains_key(CollectibleMap, unique_id) THEN "NoCollectible"
    ELSE IF position(OwnerOfCollectibles[CollectibleMap[unique_id].owner], unique_id) = 0
         THEN "NoCollectible"
    ELSE IF ~try_push(OwnerOfCollectibles[to], unique_id).ok THEN "MaximumCollectiblesOwned"
    ELSE IF ~is_some(CollectibleMap[unique_id].price) THEN "NotForSale"
    ELSE "Ok"

\* The checks of do_buy_collectible that precede the Currency transfer, in the
\* order of the code: record present, buyer is not the owner, id found in the
\* seller's vector, room in the buyer's vector, price present.
buy_precheck(unique_id, to) ==
    IF ~contains_key(CollectibleMap, unique_id) THEN "NoCollectible"
    ELSE IF CollectibleMap[unique_id].owner = to THEN "TransferToSelf"
    ELSE IF position(OwnerOfCollectibles[CollectibleMap[unique_id].owner], unique_id) = 0
         THEN "NoCollectible"
    ELSE IF ~try_push(OwnerOfCollectibles[to], unique_id).ok THEN "MaximumCollectiblesOwned"
    ELSE IF ~is_some(CollectibleMap[unique_id].price) THEN "NotForSale"
    ELSE "Ok"

\* The Currency::transfer invocation of do_buy_collectible: buyer pays seller.
ledger_call(from, to, amount, ok) ==
    [payer |-> to, payee |-> from, amount |-> amount, ok |-> ok]

\* Faulty variant: the record is rewritten before the Currency transfer is
\* attempted, so the new owner stays when the transfer fails.
buy_ledger_failed_after_write(unique_id, to, amount) ==
    /\ result' = "LedgerError"
    /\ events' = << >>
    /\ ledger' = << ledger_call(CollectibleMap[unique_id].owner, to, amount, FALSE) >>
    /\ CollectibleMap' = insert(CollectibleMap, unique_id,
                            [CollectibleMap[unique_id] EXCEPT !.owner = to, !.price = None])
    /\ UNCHANGED << CollectiblesCount, HighestPrice, OwnerOfCollectibles >>
    /\ UNCHANGED history

\* Currency::transfer returned an error: `?` returns it before any event or write.
buy_ledger_failed(unique_id, to, amount) ==
    /\ result' = "LedgerError"
    /\ events' = << >>
    /\ ledger' = << ledger_call(CollectibleMap[unique_id].owner, to, amount, FALSE) >>
    /\ UNCHANGED storage
    /\ UNCHANGED history

\* Faulty variant: TransferSucceeded is deposited before Sold.
buy_events_swapped(from, to, unique_id, amount) ==
    << [type |-> "TransferSucceeded", from |-> from, to |-> to,
        collectible |-> unique_id],
       [type |-> "Sold", seller |-> from, buyer |-> to,
        collectible |-> unique_id, price |-> amount] >>

\* The events of a purchase, in deposit order.
buy_events(from, to, unique_id, amount) ==
    << [type |-> "Sold", seller |-> from, buyer |-> to,
        collectible |-> unique_id, price |-> amount],
       [type |-> "TransferSucceeded", from |-> from, to |-> to,
        collectible |-> unique_id] >>

\* Currency::transfer succeeded: Sold, the three storage writes, TransferSucceeded.
\* Faulty variant: the sold record keeps its price.
buy_commit_keep_price(unique_id, to, amount) ==
    LET collectible == CollectibleMap[unique_id]
        from == collectible.owner
        ind == position(OwnerOfCollectibles[from], unique_id)
        from_owned == swap_remove(OwnerOfCollectibles[from], ind)
        to_owned == try_push(OwnerOfCollectibles[to], unique_id).vec
    IN  /\ CollectibleMap' = insert(CollectibleMap, unique_id,
                                    [collectible EXCEPT !.owner = to])
        /\ OwnerOfCollectibles' =
              [OwnerOfCollectibles EXCEPT ![to] = to_owned, ![from] = from_owned]
        /\ events' = buy_events(from, to, unique_id, amount)
        /\ ledger' = << ledger_call(from, to, amount, TRUE) >>
        /\ result' = "Ok"
        /\ UNCHANGED << CollectiblesCount, HighestPrice >>
        /\ UNCHANGED history

buy_commit(unique_id, to, amount) ==
    LET collectible == CollectibleMap[unique_id]
        from == collectible.owner
        ind == position(OwnerOfCollectibles[from], unique_id)
        from_owned == swap_remove(OwnerOfCollectibles[from], ind)
        to_owned == try_push(OwnerOfCollectibles[to], unique_id).vec
    IN  /\ CollectibleMap' = insert(CollectibleMap, unique_id,
                                    [collectible EXCEPT !.owner = to, !.price = None])
        /\ OwnerOfCollectibles' =
              [OwnerOfCollectibles EXCEPT ![to] = to_owned, ![from] = from_owned]
        /\ events' = buy_events(from, to, unique_id, amount)
        /\ ledger' = << ledger_call(from, to, amount, TRUE) >>
        /\ result' = "Ok"
        /\ UNCHANGED << CollectiblesCount, HighestPrice >>
        /\ UNCHANGED history

\* Faulty variant: the Currency transfer is made before the buyer's vector is
\* checked for room, so a full buyer pays and then gets the error.
do_buy_collectible_pay_first(unique_id, to, extra_fee) ==
    LET checked == buy_precheck(unique_id, to)
        price == unwrap(CollectibleMap[unique_id].price)
        amount == u128_into_balance(final_price(extra_fee, price))
    IN  IF checked = "MaximumCollectiblesOwned" /\ is_some(CollectibleMap[unique_id].price)
        THEN /\ result' = checked
             /\ events' = << >>
             /\ ledger' = << ledger_call(CollectibleMap[unique_id].owner, to, amount, TRUE) >>
             /\ UNCHANGED storage
             /\ UNCHANGED history
        ELSE IF checked # "Ok" THEN Fail(checked)
        ELSE
        \E overflow_checks \in BOOLEAN, ledger_ok \in BOOLEAN :
          IF overflow_checks /\ add_overflows(extra_fee, price) THEN Fail("panic")
          ELSE IF ~ledger_ok THEN buy_ledger_failed(unique_id, to, amount)
          ELSE buy_commit(unique_id, to, amount)

\* do_buy_collectible.  overflow_checks is the build's arithmetic setting (the
\* u128 addition panics on overflow when on, wraps when off) and ledger_ok the
\* outcome of T::Currency::transfer.
do_buy_collectible(unique_id, to, extra_fee) ==
    LET checked == buy_precheck(unique_id, to)
        price == unwrap(CollectibleMap[unique_id].price)
        amount == u128_into_balance(final_price(extra_fee, price))
    IN  IF checked # "Ok" THEN Fail(checked)
        ELSE
        \E overflow_checks \in BOOLEAN, ledger_ok \in BOOLEAN :
          IF overflow_checks /\ add_overflows(extra_fee, price) THEN Fail("panic")
          ELSE IF ~ledger_ok THEN buy_ledger_failed(unique_id, to, amount)
          ELSE buy_commit(unique_id, to, amount)

\* ---------------------------------------------------------------- dispatchable calls
\* Origins: a signed account, or the unsigned origin that ensure_signed rejects.
Unsigned == "none"
Origins == Accounts \cup {Unsigned}

create_collectible(origin, to) ==
    /\ ~Halted
    /\ CollectiblesCount < MaxCount
    /\ op' = "create_collectible"
    /\ IF origin = Unsigned THEN Fail("BadOrigin")
       ELSE mint(to, gen_unique_id[1], gen_unique_id[2])

\* Faulty variant: the caller is not compared with the record's owner.
transfer_any_caller(origin, to, unique_id) ==
    /\ ~Halted
    /\ op' = "transfer"
    /\ IF origin = Unsigned THEN Fail("BadOrigin")
       ELSE IF ~contains_key(CollectibleMap, unique_id) THEN Fail("NoCollectible")
       ELSE do_transfer(unique_id, to)

transfer(origin, to, unique_id) ==
    /\ ~Halted
    /\ op' = "transfer"
    /\ IF origin = Unsigned THEN Fail("BadOrigin")
       ELSE IF ~contains_key(CollectibleMap, unique_id) THEN Fail("NoCollectible")
       ELSE IF CollectibleMap[unique_id].owner # origin THEN Fail("NotOwner")
       ELSE do_transfer(unique_id, to)

\* Variant that also drops the id from the owner's vector.
burn_purge(origin, unique_id) ==
    /\ ~Halted
    /\ op' = "burn"
    /\ IF origin = Unsigned THEN Fail("BadOrigin")
       ELSE IF ~contains_key(CollectibleMap, unique_id) THEN Fail("NoCollectible")
       ELSE IF CollectibleMap[unique_id].owner # origin THEN Fail("NotOwner")
       ELSE /\ CollectibleMap' = remove(CollectibleMap, unique_id)
            /\ OwnerOfCollectibles' =
                  [OwnerOfCollectibles EXCEPT ![origin] =
                      swap_remove(@, position(@, unique_id))]
            /\ burned' = burned \cup {unique_id}
            /\ result' = "Ok"
            /\ events' = << >>
            /\ ledger' = << >>
            /\ UNCHANGED << CollectiblesCount, HighestPrice, minted >>

burn(origin, unique_id) ==
    /\ ~Halted
    /\ op' = "burn"
    /\ IF origin = Unsigned THEN Fail("BadOrigin")
       ELSE IF ~contains_key(CollectibleMap, unique_id) THEN Fail("NoCollectible")
       ELSE IF CollectibleMap[unique_id].owner # origin THEN Fail("NotOwner")
       ELSE /\ CollectibleMap' = remove(CollectibleMap, unique_id)
            /\ burned' = burned \cup {unique_id}
            /\ result' = "Ok"
            /\ events' = << >>
            /\ ledger' = << >>
            /\ UNCHANGED << CollectiblesCount, HighestPrice, OwnerOfCollectibles, minted >>

\* set_price: the record is fetched with unwrap(), which panics on a missing id;
\* the owner compared with the record is the call's argument.
\* Faulty variant: PriceSet is deposited only when the price really changes.
set_price_quiet(origin, owner, unique_id, new_price) ==
    /\ ~Halted
    /\ op' = "set_price"
    /\ IF origin = Unsigned THEN Fail("BadOrigin")
       ELSE IF ~contains_key(CollectibleMap, unique_id) THEN Fail("panic")
       ELSE IF CollectibleMap[unique_id].owner # owner THEN Fail("NotOwner")
       ELSE /\ result' = "Ok"
            /\ CollectibleMap' = insert(CollectibleMap, unique_id,
                                    [CollectibleMap[unique_id] EXCEPT !.price = new_price])
            /\ events' = IF CollectibleMap[unique_id].price = new_price THEN << >>
                         ELSE << [type |-> "PriceSet", collectible |-> unique_id,
                                  price |-> new_price] >>
            /\ ledger' = << >>
            /\ UNCHANGED << CollectiblesCount, HighestPrice, OwnerOfCollectibles >>
            /\ UNCHANGED history

set_price(origin, owner, unique_id, new_price) ==
    /\ ~Halted
    /\ op' = "set_price"
    /\ IF origin = Unsigned THEN Fail("BadOrigin")
       ELSE IF ~contains_key(CollectibleMap, unique_id) THEN Fail("panic")
       ELSE IF CollectibleMap[unique_id].owner # owner THEN Fail("NotOwner")
       ELSE /\ result' = "Ok"
            /\ CollectibleMap' = insert(CollectibleMap, unique_id,
                                    [CollectibleMap[unique_id] EXCEPT !.price = new_price])
            /\ events' = << [type |-> "PriceSet", collectible |-> unique_id,
                             price |-> new_price] >>
            /\ ledger' = << >>
            /\ UNCHANGED << CollectiblesCount, HighestPrice, OwnerOfCollectibles >>
            /\ UNCHANGED history

buy_collectible(origin, buyer, unique_id, extra_fee) ==
    /\ ~Halted
    /\ op' = "buy_collectible"
    /\ IF origin = Unsigned THEN Fail("BadOrigin")
       ELSE do_buy_collectible(unique_id, buyer, extra_fee)

\* ---------------------------------------------------------------- hook
\* The fold of on_initialize over ids 0 .. n-1, starting from max_price:
\* a record with price > Some(max_price) raises max_price.
RECURSIVE fold_max(_, _)
fold_max(n, max_price) ==
    IF n = 0 THEN max_price
    ELSE LET m == fold_max(n - 1, max_price)
             price == CollectibleMap[n - 1].price
         IN  IF OptGt(price, Some(m)) THEN unwrap(price) ELSE m

\* on_initialize: get(&i).unwrap() panics on an id below the count that is
\* missing from the map; otherwise HighestPrice is set to the folded maximum.
on_initialize ==
    /\ ~Halted
    /\ op' = "on_initialize"
    /\ IF \E i \in 0 .. (CollectiblesCount - 1) : ~contains_key(CollectibleMap, i)
       THEN Fail("panic")
       ELSE /\ HighestPrice' = fold_max(CollectiblesCount, HighestPrice)
            /\ result' = "Ok"
            /\ events' = << >>
            /\ ledger' = << >>
            /\ UNCHANGED << CollectiblesCount, CollectibleMap, OwnerOfCollectibles >>
            /\ UNCHANGED history

\* ---------------------------------------------------------------- specification
Next ==
    \/ \E origin \in Origins, to \in Accounts : create_collectible(origin, to)
    \/ \E origin \in Origins, to \in Accounts, unique_id \in Ids :
          transfer(origin, to, unique_id)
    \/ \E origin \in Origins, unique_id \in Ids : burn(origin, unique_id)
    \/ \E origin \in Origins, owner \in Accounts, unique_id \in Ids,
          new_price \in PriceInputs : set_price(origin, owner, unique_id, new_price)
    \/ \E origin \in Origins, buyer \in Accounts, unique_id \in Ids,
          extra_fee \in FeeInputs : buy_collectible(origin, buyer, unique_id, extra_fee)

\* The dispatchable calls, in any order and with any arguments.
Spec == Init /\ [][Next]_vars

\* The calls interleaved with the per-block hook.
NextHooks == Next \/ on_initialize

SpecHooks == Init /\ [][NextHooks]_vars

\* ---------------------------------------------------------------- type invariant
Results == {"Ok", "BadOrigin", "DuplicateCollectible", "MaximumCollectiblesOwned",
            "NoCollectible", "NotOwner", "TransferToSelf", "NotForSale",
            "LedgerError", "panic"}

TypeOK ==
    /\ CollectiblesCount \in 0 .. MaxCount
    /\ HighestPrice \in 0 .. BalanceMax
    /\ DOMAIN CollectibleMap \subseteq Ids
    /\ \A id \in DOMAIN CollectibleMap :
          /\ CollectibleMap[id].unique_id = id
          /\ CollectibleMap[id].owner \in Accounts
          /\ CollectibleMap[id].price \in {None} \cup {Some(p) : p \in 0 .. BalanceMax}
          /\ CollectibleMap[id].color \in {"Red", "Yellow", "Blue", "Green"}
    /\ \A a \in Accounts : elems(OwnerOfCollectibles[a]) \subseteq Ids
    /\ result \in Results

\* ================================================================ claims
\* The step formulas below have the shape
\*     op' = name => \A arguments : pre => (post \/ ~call)
\* every step that is the named call with the quantified arguments, taken from
\* a state satisfying pre, satisfies post.  A step with op' = "buy_collectible"
\* that satisfies do_buy_collectible is a buy_collectible by a signed origin.
SignedOrigins == Accounts

\* A failed call left no trace: storage as before, no event, no ledger call.
NoEffect ==
    /\ UNCHANGED storage
    /\ events' = << >>
    /\ ledger' = << >>

\* C1: for every id present in the registry, the id is in exactly one
\* account's ownership vector, exactly once there, and that account is the
\* record's owner.
C1_OwnerIndexMatchesRegistry ==
    \A id \in DOMAIN CollectibleMap :
        \A a \in Accounts :
            occurrences(OwnerOfCollectibles[a], id) =
                (IF a = CollectibleMap[id].owner THEN 1 ELSE 0)

\* A purchase has just moved an id while other records exist and one was burned.
C1_Witness ==
    /\ op = "buy_collectible"
    /\ result = "Ok"
    /\ burned # {}
    /\ Cardinality(DOMAIN CollectibleMap) >= 2

\* C2: the ids assigned by successful creates are 0, 1, 2, ... in order, the
\* mint counter never decreases, and a burned id is never in the registry again.
C2_IdsIncreasingNeverReused ==
    /\ [](\A i \in 1 .. Len(minted) : minted[i] = i - 1)
    /\ [](Len(minted) = CollectiblesCount)
    /\ [](burned \cap DOMAIN CollectibleMap = {})
    /\ [][CollectiblesCount' >= CollectiblesCount]_vars

\* A create has just succeeded after some id was burned.
C2_Witness ==
    /\ op = "create_collectible"
    /\ result = "Ok"
    /\ burned # {}
    /\ Len(minted) >= 2

\* C3: no ownership vector exceeds MaximumOwned, and a create, transfer or buy
\* that reaches its append with the receiving vector full fails with
\* MaximumCollectiblesOwned and changes nothing.
C3_Full(a) == Len(OwnerOfCollectibles[a]) >= MaximumOwned

C3_Refused == result' = "MaximumCollectiblesOwned" /\ NoEffect

C3_CapacityStep ==
    /\ op' = "create_collectible" =>
          \A origin \in SignedOrigins, to \in Accounts :
              C3_Full(to) => (C3_Refused \/ ~create_collectible(origin, to))
    /\ op' = "transfer" =>
          \A origin \in SignedOrigins, to \in Accounts, id \in Ids :
              (/\ contains_key(CollectibleMap, id)
               /\ CollectibleMap[id].owner = origin
               /\ to # origin
               /\ C3_Full(to))
                  => (C3_Refused \/ ~transfer(origin, to, id))
    /\ op' = "buy_collectible" =>
          \A buyer \in Accounts, id \in Ids, fee \in FeeInputs :
              (/\ contains_key(CollectibleMap, id)
               /\ CollectibleMap[id].owner # buyer
               /\ C3_Full(buyer))
                  => (C3_Refused \/ ~do_buy_collectible(id, buyer, fee))

C3_CapacityBound ==
    /\ [](\A a \in Accounts : Len(OwnerOfCollectibles[a]) <= MaximumOwned)
    /\ [][C3_CapacityStep]_vars

\* A transfer has just been refused because the recipient's vector is full.
C3_Witness ==
    /\ op = "transfer"
    /\ result = "MaximumCollectiblesOwned"
    /\ \E a \in Accounts : Len(OwnerOfCollectibles[a]) = MaximumOwned

\* C4: create(to) with to's vector full fails with MaximumCollectiblesOwned,
\* the would-be id is not in the registry, the counter and to's vector are as
\* before; a create that succeeds stores a record with price None and owner to,
\* puts the id exactly once in to's vector and advances the counter by 1.
C4_Rejected(to) ==
    /\ result' = "MaximumCollectiblesOwned"
    /\ ~contains_key(CollectibleMap', gen_unique_id[1])
    /\ CollectiblesCount' = CollectiblesCount
    /\ OwnerOfCollectibles'[to] = OwnerOfCollectibles[to]

C4_Minted(to) ==
    /\ contains_key(CollectibleMap', gen_unique_id[1])
    /\ CollectibleMap'[gen_unique_id[1]].price = None
    /\ CollectibleMap'[gen_unique_id[1]].owner = to
    /\ occurrences(OwnerOfCollectibles'[to], gen_unique_id[1]) = 1
    /\ CollectiblesCount' = CollectiblesCount + 1

C4_MintStep ==
    op' = "create_collectible" =>
        \A origin \in SignedOrigins, to \in Accounts :
            /\ C3_Full(to) => (C4_Rejected(to) \/ ~create_collectible(origin, to))
            /\ result' = "Ok" => (C4_Minted(to) \/ ~create_collectible(origin, to))

C4_MintAtomic == [][C4_MintStep]_vars

\* A create has just been refused because the receiving vector is full.
C4_Witness ==
    /\ op = "create_collectible"
    /\ result = "MaximumCollectiblesOwned"
    /\ \E a \in Accounts : Len(OwnerOfCollectibles[a]) = MaximumOwned
    /\ ~contains_key(CollectibleMap, CollectiblesCount)

\* C5: a successful transfer(to, id) by caller A owning id leaves id absent
\* from A's vector and exactly once in to's vector, owner = to, price None,
\* every other record unchanged, every vector otherwise the same set of ids,
\* and deposits TransferSucceeded{A, to, id}.
C5_Transferred(origin, to, id) ==
    /\ events' = << [type |-> "TransferSucceeded", from |-> origin, to |-> to,
                     collectible |-> id] >>
    /\ CollectibleMap[id].owner = origin
    /\ occurrences(OwnerOfCollectibles'[origin], id) = 0
    /\ occurrences(OwnerOfCollectibles'[to], id) = 1
    /\ CollectibleMap'[id] = [CollectibleMap[id] EXCEPT !.owner = to, !.price = None]
    /\ DOMAIN CollectibleMap' = DOMAIN CollectibleMap
    /\ \A other \in DOMAIN CollectibleMap \ {id} :
          CollectibleMap'[other] = CollectibleMap[other]
    /\ \A a \in Accounts :
          elems(OwnerOfCollectibles'[a]) =
              IF a = origin THEN elems(OwnerOfCollectibles[a]) \ {id}
              ELSE IF a = to THEN elems(OwnerOfCollectibles[a]) \cup {id}
              ELSE elems(OwnerOfCollectibles[a])
    /\ \A a \in Accounts :
          Len(OwnerOfCollectibles'[a]) =
              IF a = origin THEN Len(OwnerOfCollectibles[a]) - 1
              ELSE IF a = to THEN Len(OwnerOfCollectibles[a]) + 1
              ELSE Len(OwnerOfCollectibles[a])
    /\ UNCHANGED << CollectiblesCount, HighestPrice >>

C5_TransferStep ==
    (op' = "transfer" /\ result' = "Ok") =>
        \A origin \in SignedOrigins, to \in Accounts, id \in Ids :
            C5_Transferred(origin, to, id) \/ ~transfer(origin, to, id)

C5_TransferEffect == [][C5_TransferStep]_vars

\* A transfer has just succeeded and the sender still holds other ids.
C5_Witness ==
    /\ op = "transfer"
    /\ result = "Ok"
    /\ Len(events) = 1
    /\ Len(OwnerOfCollectibles[events[1].from]) >= 1
    /\ CollectibleMap[events[1].collectible].owner = events[1].to

\* C6: transfer fails with NoCollectible when the id is not in the registry,
\* with NotOwner when the caller is not the record's owner, and with
\* TransferToSelf when the recipient is the owning caller; each time storage,
\* events and ledger are untouched.
C6_TransferFailStep ==
    op' = "transfer" =>
        \A origin \in SignedOrigins, to \in Accounts, id \in Ids :
            /\ ~contains_key(CollectibleMap, id)
                  => ((result' = "NoCollectible" /\ NoEffect) \/ ~transfer(origin, to, id))
            /\ (contains_key(CollectibleMap, id) /\ CollectibleMap[id].owner # origin)
                  => ((result' = "NotOwner" /\ NoEffect) \/ ~transfer(origin, to, id))
            /\ (/\ contains_key(CollectibleMap, id)
                /\ CollectibleMap[id].owner = origin
                /\ to = origin)
                  => ((result' = "TransferToSelf" /\ NoEffect)
                        \/ ~transfer(origin, to, id))

C6_TransferFailures == [][C6_TransferFailStep]_vars

\* A transfer by a caller who is not the owner has just been refused.
C6_Witness ==
    /\ op = "transfer"
    /\ result = "NotOwner"
    /\ DOMAIN CollectibleMap # {}

\* C7: a successful buy of an id listed by seller moves the id from seller's
\* vector to buyer's, sets owner = buyer and price = None, and deposits exactly
\* Sold{seller, buyer, id, ..} then TransferSucceeded{seller, buyer, id}.
C7_Bought(buyer, id) ==
    LET seller == CollectibleMap[id].owner
    IN  /\ Len(events') = 2
        /\ events'[1].type = "Sold"
        /\ events'[1].seller = seller
        /\ events'[1].buyer = buyer
        /\ events'[1].collectible = id
        /\ events'[2] = [type |-> "TransferSucceeded", from |-> seller,
                         to |-> buyer, collectible |-> id]
        /\ is_some(CollectibleMap[id].price)
        /\ seller # buyer
        /\ occurrences(OwnerOfCollectibles[seller], id) = 1
        /\ occurrences(OwnerOfCollectibles'[seller], id) = 0
        /\ occurrences(OwnerOfCollectibles'[buyer], id) = 1
        /\ CollectibleMap'[id].owner = buyer
        /\ CollectibleMap'[id].price = None

C7_BuyStep ==
    (op' = "buy_collectible" /\ result' = "Ok") =>
        \A buyer \in Accounts, id \in Ids, fee \in FeeInputs :
            contains_key(CollectibleMap, id)
                => (C7_Bought(buyer, id) \/ ~do_buy_collectible(id, buyer, fee))

C7_BuyEffect == [][C7_BuyStep]_vars

\* A purchase has just succeeded.
C7_Witness ==
    /\ op = "buy_collectible"
    /\ result = "Ok"
    /\ Len(events) = 2
    /\ Len(ledger) = 1
    /\ CollectibleMap[events[1].collectible].owner = events[1].buyer

\* C8: the amount the ledger is asked to move in a buy is exactly the listed
\* price plus extra_fee, as a mathematical sum, hence never below the price.
C8_Exact(id, fee) ==
    /\ ledger'[1].amount = unwrap(CollectibleMap[id].price) + fee
    /\ ledger'[1].amount >= unwrap(CollectibleMap[id].price)

C8_AmountStep ==
    (op' = "buy_collectible" /\ ledger' # << >>) =>
        \A buyer \in Accounts, id \in Ids, fee \in FeeInputs :
            (contains_key(CollectibleMap, id) /\ is_some(CollectibleMap[id].price))
                => (C8_Exact(id, fee) \/ ~do_buy_collectible(id, buyer, fee))

C8_LedgerAmountIsSum == [][C8_AmountStep]_vars

\* C9 as stated: a buy of an existing unlisted record by a non-owner fails
\* with NotForSale whatever the fill level of the buyer's vector, a buy by
\* the owner fails with TransferToSelf, and neither changes anything.
C9_Unlisted(buyer, id) ==
    /\ contains_key(CollectibleMap, id)
    /\ CollectibleMap[id].owner # buyer
    /\ ~is_some(CollectibleMap[id].price)

C9_SelfBuy(buyer, id) ==
    /\ contains_key(CollectibleMap, id)
    /\ CollectibleMap[id].owner = buyer

C9_OriginalStep ==
    op' = "buy_collectible" =>
        \A buyer \in Accounts, id \in Ids, fee \in FeeInputs :
            /\ C9_Unlisted(buyer, id)
                  => ((result' = "NotForSale" /\ NoEffect)
                        \/ ~do_buy_collectible(id, buyer, fee))
            /\ C9_SelfBuy(buyer, id)
                  => ((result' = "TransferToSelf" /\ NoEffect)
                        \/ ~do_buy_collectible(id, buyer, fee))

C9_NotForSaleWhateverFill == [][C9_OriginalStep]_vars

\* C9 as amended: a buy of an existing unlisted record by a non-owner fails
\* with NotForSale when the buyer's vector has room and with
\* MaximumCollectiblesOwned when it is full; a buy by the owner fails with
\* TransferToSelf; none of these changes storage, deposits an event or
\* invokes the ledger.
C9_Expected(buyer, id) ==
    /\ result' = IF CollectibleMap[id].owner = buyer THEN "TransferToSelf"
                 ELSE IF C3_Full(buyer) THEN "MaximumCollectiblesOwned"
                 ELSE "NotForSale"
    /\ NoEffect

C9_AmendedStep ==
    op' = "buy_collectible" =>
        \A buyer \in Accounts, id \in Ids :
            (C9_Unlisted(buyer, id) \/ C9_SelfBuy(buyer, id))
                => (C9_Expected(buyer, id)
                      \/ \A fee \in FeeInputs : ~do_buy_collectible(id, buyer, fee))

C9_UnlistedOrSelfBuyFails == [][C9_AmendedStep]_vars

\* A buy has just been refused for capacity while every record is unlisted.
C9_Witness ==
    /\ op = "buy_collectible"
    /\ result = "MaximumCollectiblesOwned"
    /\ DOMAIN CollectibleMap # {}
    /\ \A id \in DOMAIN CollectibleMap : CollectibleMap[id].price = None

\* C10: when the Currency transfer invoked by buy fails, buy fails and the
\* registry, both ownership vectors and the counter are as before, and no
\* Sold or TransferSucceeded event is deposited.
C10_LedgerFailStep ==
    (op' = "buy_collectible" /\ ledger' # << >> /\ ~ledger'[1].ok)
        => (/\ result' # "Ok"
            /\ UNCHANGED storage
            /\ events' = << >>)

C10_LedgerFailureAtomic == [][C10_LedgerFailStep]_vars

\* A buy has just failed in the Currency transfer, the listing still standing.
C10_Witness ==
    /\ op = "buy_collectible"
    /\ result = "LedgerError"
    /\ Len(ledger) = 1
    /\ ~ledger[1].ok
    /\ \E id \in DOMAIN CollectibleMap :
          /\ CollectibleMap[id].owner = ledger[1].payee
          /\ is_some(CollectibleMap[id].price)

\* C11: in a buy the ledger is invoked only after every other failure
\* condition is ruled out (record present, buyer not the owner, id in the
\* seller's vector, room in the buyer's vector, price present); the Currency
\* transfer succeeds if and only if ownership moves from payee to payer; and
\* no buy returns an error after the transfer succeeded.
C11_ChecksPassed(buyer, id) ==
    /\ contains_key(CollectibleMap, id)
    /\ CollectibleMap[id].owner # buyer
    /\ occurrences(OwnerOfCollectibles[CollectibleMap[id].owner], id) >= 1
    /\ Len(OwnerOfCollectibles[buyer]) < MaximumOwned
    /\ is_some(CollectibleMap[id].price)
    /\ ledger'[1].payer = buyer
    /\ ledger'[1].payee = CollectibleMap[id].owner

C11_Paid == ledger' # << >> /\ ledger'[1].ok

C11_Moved ==
    {id \in DOMAIN CollectibleMap \cap DOMAIN CollectibleMap' :
        CollectibleMap'[id].owner # CollectibleMap[id].owner}

C11_CoupledStep ==
    op' = "buy_collectible" =>
        /\ ledger' # << >> =>
              \A buyer \in Accounts, id \in Ids, fee \in FeeInputs :
                  C11_ChecksPassed(buyer, id) \/ ~do_buy_collectible(id, buyer, fee)
        /\ C11_Paid <=> C11_Moved # {}
        /\ C11_Paid <=> result' = "Ok"
        /\ \A id \in C11_Moved :
              /\ CollectibleMap[id].owner = ledger'[1].payee
              /\ CollectibleMap'[id].owner = ledger'[1].payer
              /\ occurrences(OwnerOfCollectibles'[ledger'[1].payer], id) = 1
              /\ occurrences(OwnerOfCollectibles'[ledger'[1].payee], id) = 0

C11_PaymentCoupledToOwnership == [][C11_CoupledStep]_vars

\* A buy has just paid the seller and the payer owns a record.
C11_Witness ==
    /\ op = "buy_collectible"
    /\ Len(ledger) = 1
    /\ ledger[1].ok
    /\ ledger[1].payer # ledger[1].payee
    /\ \E id \in DOMAIN CollectibleMap :
          /\ CollectibleMap[id].owner = ledger[1].payer
          /\ occurrences(OwnerOfCollectibles[ledger[1].payer], id) = 1

\* C12: set_price on an existing id with owner equal to the record's owner
\* stores new_price, changes nothing else in CollectibleMap or
\* OwnerOfCollectibles and deposits PriceSet{id, new_price}, also when the price
\* is unchanged; with a different owner it fails with NotOwner, the price is
\* unchanged and no event is deposited.
C12_PriceStored(id, new_price) ==
    /\ result' = "Ok"
    /\ CollectibleMap' = [CollectibleMap EXCEPT ![id].price = new_price]
    /\ OwnerOfCollectibles' = OwnerOfCollectibles
    /\ events' = << [type |-> "PriceSet", collectible |-> id, price |-> new_price] >>

C12_SetPriceStep ==
    op' = "set_price" =>
        \A owner \in Accounts, id \in Ids :
            contains_key(CollectibleMap, id) =>
                IF owner = CollectibleMap[id].owner
                THEN \A new_price \in PriceInputs :
                        \/ C12_PriceStored(id, new_price)
                        \/ \A origin \in SignedOrigins :
                              ~set_price(origin, owner, id, new_price)
                ELSE \/ (result' = "NotOwner" /\ NoEffect)
                     \/ \A origin \in SignedOrigins, new_price \in PriceInputs :
                           ~set_price(origin, owner, id, new_price)

C12_SetPriceEffect == [][C12_SetPriceStep]_vars

\* set_price has just stored a price and deposited PriceSet for it.
C12_Witness ==
    /\ op = "set_price"
    /\ result = "Ok"
    /\ Len(events) = 1
    /\ events[1].type = "PriceSet"
    /\ is_some(events[1].price)
    /\ CollectibleMap[events[1].collectible].price = events[1].price

\* C13: on_initialize tolerates burned ids: from every reachable state, also
\* one where ids below CollectiblesCount have been burned, it completes
\* without aborting (a missing id contributes no value).
C13_RecomputeToleratesBurned ==
    op = "on_initialize" => result = "Ok"

\* C14: immediately after a completed on_initialize, HighestPrice is the
\* maximum of the prices of the records now in CollectibleMap that have one
\* (0 when none has), also after the highest listing was lowered or cancelled.
C14_Listed == {unwrap(CollectibleMap[id].price) :
                  id \in {i \in DOMAIN CollectibleMap : is_some(CollectibleMap[i].price)}}

C14_MaxListed ==
    IF C14_Listed = {} THEN 0
    ELSE CHOOSE m \in C14_Listed : \A x \in C14_Listed : x <= m

C14_HighestIsCurrentMax ==
    (op = "on_initialize" /\ result = "Ok") => HighestPrice = C14_MaxListed

\* C15: every ownership change cancels the listing: in every step, a record
\* whose owner after the step differs from its owner before has no price
\* after the step; and a price that is present after a step and was not the
\* record's price before it was stored by set_price.
C15_ListingStep ==
    \A id \in Ids :
        /\ (/\ contains_key(CollectibleMap, id)
            /\ contains_key(CollectibleMap', id)
            /\ CollectibleMap'[id].owner # CollectibleMap[id].owner)
              => CollectibleMap'[id].price = None
        /\ (/\ contains_key(CollectibleMap', id)
            /\ is_some(CollectibleMap'[id].price)
            /\ (~contains_key(CollectibleMap, id)
                  \/ CollectibleMap[id].price # CollectibleMap'[id].price))
              => op' = "set_price"

C15_OwnerChangeCancelsListing == [][C15_ListingStep]_vars

\* A listed record has just been sold: its new owner holds it without a price.
C15_Witness ==
    /\ op = "buy_collectible"
    /\ result = "Ok"
    /\ Len(events) = 2
    /\ events[2].type = "TransferSucceeded"
    /\ CollectibleMap[events[2].collectible].owner = events[2].to
    /\ CollectibleMap[events[2].collectible].price = None

\* C16: a transfer to a recipient whose vector already holds MaximumOwned ids
\* fails with MaximumCollectiblesOwned and leaves no partial mutation: the
\* sender's vector still holds the id, the recipient's vector and the record
\* are unchanged, and no event is deposited.
C16_NothingMoved(from, to, id) ==
    /\ result' = "MaximumCollectiblesOwned"
    /\ OwnerOfCollectibles'[from] = OwnerOfCollectibles[from]
    /\ occurrences(OwnerOfCollectibles'[from], id) = 1
    /\ OwnerOfCollectibles'[to] = OwnerOfCollectibles[to]
    /\ contains_key(CollectibleMap', id)
    /\ CollectibleMap'[id] = CollectibleMap[id]
    /\ events' = << >>
    /\ UNCHANGED storage

C16_FullRecipientStep ==
    op' = "transfer" =>
        \A from \in SignedOrigins, to \in Accounts, id \in Ids :
            (/\ to # from
             /\ contains_key(CollectibleMap, id)
             /\ CollectibleMap[id].owner = from
             /\ Len(OwnerOfCollectibles[to]) = MaximumOwned)
                => (C16_NothingMoved(from, to, id) \/ ~transfer(from, to, id))

C16_TransferToFullRecipient == [][C16_FullRecipientStep]_vars

\* A transfer has just been refused for lack of room and the sender still
\* holds a record of its own while the other account's vector is full.
C16_Witness ==
    /\ op = "transfer"
    /\ result = "MaximumCollectiblesOwned"
    /\ events = << >>
    /\ \E from \in Accounts, to \in Accounts :
          /\ from # to
          /\ Len(OwnerOfCollectibles[to]) = MaximumOwned
          /\ \E id \in DOMAIN CollectibleMap :
                /\ CollectibleMap[id].owner = from
                /\ occurrences(OwnerOfCollectibles[from], id) = 1

\* C17: burn by the record's owner removes the record and leaves
\* OwnerOfCollectibles (the burned id's entry in the owner's vector included),
\* CollectiblesCount and HighestPrice unchanged; burn by another caller fails
\* with NotOwner and burn of an absent id with NoCollectible, both without any
\* state change.
C17_Burned(origin, id) ==
    /\ result' = "Ok"
    /\ ~contains_key(CollectibleMap', id)
    /\ CollectibleMap' = remove(CollectibleMap, id)
    /\ OwnerOfCollectibles' = OwnerOfCollectibles
    /\ occurrences(OwnerOfCollectibles'[origin], id) = 1
    /\ CollectiblesCount' = CollectiblesCount
    /\ HighestPrice' = HighestPrice

C17_BurnStep ==
    op' = "burn" =>
        \A origin \in SignedOrigins, id \in Ids :
            /\ (contains_key(CollectibleMap, id) /\ CollectibleMap[id].owner = origin)
                  => (C17_Burned(origin, id) \/ ~burn(origin, id))
            /\ (contains_key(CollectibleMap, id) /\ CollectibleMap[id].owner # origin)
                  => ((result' = "NotOwner" /\ NoEffect) \/ ~burn(origin, id))
            /\ ~contains_key(CollectibleMap, id)
                  => ((result' = "NoCollectible" /\ NoEffect) \/ ~burn(origin, id))

C17_BurnEffect == [][C17_BurnStep]_vars

\* A burn has just succeeded: an id without a record is still in a vector.
C17_Witness ==
    /\ op = "burn"
    /\ result = "Ok"
    /\ \E a \in Accounts : \E id \in elems(OwnerOfCollectibles[a]) :
          ~contains_key(CollectibleMap, id)

\* C18: in every reachable state the number of ids in each account's vector
\* equals the number of records in CollectibleMap owned by that account, and
\* every id in a vector has a record, so that an account owning fewer than
\* MaximumOwned existing records has room for another id.
C18_Owned(a) == {id \in DOMAIN CollectibleMap : CollectibleMap[id].owner = a}

C18_VectorCountsOwnedRecords ==
    \A a \in Accounts :
        /\ Len(OwnerOfCollectibles[a]) = Cardinality(C18_Owned(a))
        /\ \A id \in elems(OwnerOfCollectibles[a]) : contains_key(CollectibleMap, id)
        /\ Cardinality(C18_Owned(a)) < MaximumOwned
              => try_push(OwnerOfCollectibles[a], 0).ok

\* C19: only the owner changes a listing: in every set_price step that changes
\* the price of an existing record, the signed caller (origin) is the
\* record's owner.
C19_CallerIsOwnerStep ==
    op' = "set_price" =>
        \A origin \in SignedOrigins, owner \in Accounts, id \in Ids,
           new_price \in PriceInputs :
            (/\ contains_key(CollectibleMap, id)
             /\ contains_key(CollectibleMap', id)
             /\ CollectibleMap'[id].price # CollectibleMap[id].price)
                => (origin = CollectibleMap[id].owner
                      \/ ~set_price(origin, owner, id, new_price))

C19_OnlyOwnerChangesListing == [][C19_CallerIsOwnerStep]_vars

\* C20: only the payer authorises a purchase: in every successful
\* buy_collectible step the account debited by the ledger, which becomes the
\* new owner, is the signed caller (origin).
C20_CallerIsPayerStep ==
    (op' = "buy_collectible" /\ result' = "Ok") =>
        \A origin \in SignedOrigins, buyer \in Accounts, id \in Ids,
           fee \in FeeInputs :
            \/ /\ ledger'[1].payer = origin
               /\ contains_key(CollectibleMap', id)
               /\ CollectibleMap'[id].owner = origin
            \/ ~buy_collectible(origin, buyer, id, fee)

C20_OnlyPayerAuthorisesPurchase == [][C20_CallerIsPayerStep]_vars

====
